---------------------------- MODULE Spec2Model ----------------------------
(***************************************************************************)
(* Weekly zonal statistics over epidemiological weeks.                     *)
(*                                                                         *)
(* Model of the two scripts of the repository:                             *)
(*   notebooks/01_precipitation_chirps_weekly.py   (pipeline "precip")     *)
(*   notebooks/02_lst_modis_day_night_weekly.py    (pipeline "lst")        *)
(*                                                                         *)
(* A script is one sequential run: load the week table, build the date     *)
(* windows, then for each window build one raster and reduce it once per   *)
(* statistic, reshape the collected frames into a table and write it.      *)
(*                                                                         *)
(* Representation                                                          *)
(*  - a pandas Timestamp of the fecha_ini column is a day number (days     *)
(*    since 1970-01-01); strftime("%Y-%m-%d") turns it into <<y, m, d>>,   *)
(*    and the backend's filterDate parses that back into a day number;     *)
(*  - the study area is AOI polygons, each covering PixelsPerPolygon grid  *)
(*    cells at the reduction scale; a raster maps every cell to            *)
(*    [valid, v]: valid = FALSE is a masked cell;                          *)
(*  - precipitation is an integer amount; a temperature is kept in         *)
(*    hundredths of a degree Celsius, so raw * 0.02 - 273.15 is            *)
(*    2 * raw - 27315 exactly;                                             *)
(*  - a statistic is an exact number [t |-> "num", n, d] (the rational     *)
(*    n/d in lowest terms), [t |-> "sqrt", n, d] (the square root of n/d   *)
(*    when it is not rational) or Null (the reducer had no input);         *)
(*  - a printed frame is its sequence of whitespace-separated tokens; a    *)
(*    number prints as itself (its decimal rendering is not modelled).     *)
(*                                                                         *)
(* The backend (Earth Engine) is outside the repository.  Of it the model  *)
(* takes: filterDate keeps the images of the half-open day range; every    *)
(* cell of an archived image carries data; sum() and median() combine, per *)
(* cell, the unmasked inputs, and leave the cell masked when there are     *)
(* none; a reducer weighs every cell of a polygon alike, returns the       *)
(* smallest of several modes, and sets no property on a feature for which  *)
(* it had no input; the features of the study area carry the property gid  *)
(* and no other; any remote call may raise.                                *)
(***************************************************************************)
EXTENDS Integers, Sequences, FiniteSets

(***************************************************************************)
(* Bounds of the model.                                                    *)
(***************************************************************************)
MaxWeeks == 3
MaxDayOffset == 2
MaxObs == 2
MaxPolygons == 2
PixelsPerPolygon == 2

(***************************************************************************)
(* Program constants.                                                      *)
(***************************************************************************)
STATISTICS ==
  <<"COUNT", "MINIMUM", "MEAN", "MAXIMUM", "MEDIAN", "MODE", "STD", "SUM", "VARIANCE">>

NumStats == Len(STATISTICS)

(***************************************************************************)
(* Calendar: day number <-> civil date (proleptic Gregorian).              *)
(***************************************************************************)
DaysFromCivil(y, m, d) ==
  LET yy  == IF m <= 2 THEN y - 1 ELSE y
      era == yy \div 400
      yoe == yy - era * 400
      mp  == IF m > 2 THEN m - 3 ELSE m + 9
      doy == (153 * mp + 2) \div 5 + d - 1
      doe == yoe * 365 + yoe \div 4 - yoe \div 100 + doy
  IN  era * 146097 + doe - 719468

CivilFromDays(z) ==
  LET zz  == z + 719468
      era == zz \div 146097
      doe == zz - era * 146097
      yoe == (doe - doe \div 1460 + doe \div 36524 - doe \div 146096) \div 365
      doy == doe - (365 * yoe + yoe \div 4 - yoe \div 100)
      mp  == (5 * doy + 2) \div 153
      d   == doy - (153 * mp + 2) \div 5 + 1
      m   == IF mp < 10 THEN mp + 3 ELSE mp - 9
      y   == yoe + era * 400
  IN  <<IF m <= 2 THEN y + 1 ELSE y, m, d>>

\* ts.strftime("%Y-%m-%d"): the text of a timestamp, as <<year, month, day>>.
strftime(ts) == CivilFromDays(ts)

\* format_timestamps(timestamps)
format_timestamps(timestamps) ==
  [k \in 1..Len(timestamps) |-> strftime(timestamps[k])]

\* ts + pd.DateOffset(days=n)
DateOffset(ts, n) == ts + n

\* The backend's reading of a "YYYY-MM-DD" argument of filterDate.
ParseDate(str) == DaysFromCivil(str[1], str[2], str[3])

\* variant: every window ends 7 days after its own start
EndDatesOf_OwnWeek(starts) ==
  [n \in 1..Len(starts) |-> DateOffset(starts[n], 7)]

\* end_dates = start_dates[1:]; end_dates.append(start_dates[-1] + DateOffset(days=7))
EndDatesOf(starts) ==
  Append(SubSeq(starts, 2, Len(starts)), DateOffset(starts[Len(starts)], 7))

\* variant: the end day is part of the window
InWindow_Closed(d, start, end) == ParseDate(start) <= d /\ d <= ParseDate(end)

\* filterDate(start, end): an observation of day d passes iff start <= d < end.
InWindow(d, start, end) == ParseDate(start) <= d /\ d < ParseDate(end)

(***************************************************************************)
(* Exact arithmetic for the reducers.                                      *)
(***************************************************************************)
Abs(x) == IF x < 0 THEN -x ELSE x

RECURSIVE GCD(_, _)
GCD(a, b) == IF b = 0 THEN a ELSE GCD(b, a % b)

RECURSIVE SumSeq(_)
SumSeq(q) == IF q = <<>> THEN 0 ELSE Head(q) + SumSeq(Tail(q))

RECURSIVE Isqrt(_, _, _)
Isqrt(n, lo, hi) ==
  IF lo >= hi THEN lo
  ELSE LET mid == (lo + hi + 1) \div 2
       IN  IF mid * mid <= n THEN Isqrt(n, mid, hi) ELSE Isqrt(n, lo, mid - 1)

\* floor of the square root of n >= 0
Sqrt(n) == Isqrt(n, 0, IF n < 46340 THEN n ELSE 46340)

Null == [t |-> "null", n |-> 0, d |-> 1, s |-> ""]
Txt(str) == [t |-> "txt", n |-> 0, d |-> 1, s |-> str]

\* the number n/d (d > 0) in lowest terms
Num(n, d) ==
  LET g == GCD(Abs(n), d)
  IN  [t |-> "num", n |-> n \div g, d |-> d \div g, s |-> ""]

\* the square root of the number x >= 0
Root(x) ==
  LET rn == Sqrt(x.n)
      rd == Sqrt(x.d)
  IN  IF rn * rn = x.n /\ rd * rd = x.d
      THEN Num(rn, rd)
      ELSE [t |-> "sqrt", n |-> x.n, d |-> x.d, s |-> ""]

Range(q) == {q[k] : k \in 1..Len(q)}

\* the k-th smallest element of a non-empty sequence of integers
Kth(q, k) ==
  CHOOSE v \in Range(q) :
    /\ Cardinality({j \in 1..Len(q) : q[j] < v}) < k
    /\ Cardinality({j \in 1..Len(q) : q[j] <= v}) >= k

\* the median of a non-empty sequence of integers, as a pair <<n, d>>
MedianOf(q) ==
  LET c == Len(q)
  IN  IF c % 2 = 1 THEN <<Kth(q, (c + 1) \div 2), 1>>
      ELSE <<Kth(q, c \div 2) + Kth(q, c \div 2 + 1), 2>>

Occurrences(q, v) == Cardinality({j \in 1..Len(q) : q[j] = v})

\* the most frequent element; of several, the smallest
ModeOf(q) ==
  CHOOSE v \in Range(q) :
    \A w \in Range(q) :
      \/ Occurrences(q, w) < Occurrences(q, v)
      \/ (Occurrences(q, w) = Occurrences(q, v) /\ v <= w)

(***************************************************************************)
(* Rasters.  A raster is a sequence over the grid cells of the study area; *)
(* the cells of polygon g are CellsOf(g).                                  *)
(***************************************************************************)
NumCells(aoi) == aoi * PixelsPerPolygon
CellsOf(g) == ((g - 1) * PixelsPerPolygon + 1)..(g * PixelsPerPolygon)

\* variant: an image without data instead of the constant 0
ConstantZero_Masked(aoi) == [p \in 1..NumCells(aoi) |-> [valid |-> FALSE, v |-> 0]]

\* ee.Image.constant(0).clip(AOI)
ConstantZero(aoi) == [p \in 1..NumCells(aoi) |-> [valid |-> TRUE, v |-> 0]]

RECURSIVE BitAnd(_, _)
BitAnd(a, b) ==
  IF a = 0 \/ b = 0 THEN 0
  ELSE (a % 2) * (b % 2) + 2 * BitAnd(a \div 2, b \div 2)

RECURSIVE ShiftLeft(_, _)
ShiftLeft(a, k) == IF k = 0 THEN a ELSE ShiftLeft(2 * a, k - 1)

\* variant: Or in place of And
QualityMask_EitherClear(qa) ==
  BitAnd(qa, ShiftLeft(1, 2)) = 0 \/ BitAnd(qa, ShiftLeft(1, 3)) = 0

\* qa.bitwiseAnd(1 << 2).eq(0).And(qa.bitwiseAnd(1 << 3).eq(0))
QualityMask(qa) ==
  BitAnd(qa, ShiftLeft(1, 2)) = 0 /\ BitAnd(qa, ShiftLeft(1, 3)) = 0

\* mask_day(image): image.updateMask(mask) keeps a cell iff it was unmasked
\* and the mask computed from QC_Day is non-zero there.
mask_day(image) ==
  [image EXCEPT !.px =
     [p \in DOMAIN image.px |->
        [image.px[p] EXCEPT !.day_mask = @ /\ QualityMask(image.px[p].QC_Day)]]]

\* mask_night(image)
mask_night(image) ==
  [image EXCEPT !.px =
     [p \in DOMAIN image.px |->
        [image.px[p] EXCEPT !.night_mask = @ /\ QualityMask(image.px[p].QC_Night)]]]

\* raw * 0.02 - 273.15, in hundredths of a degree
ToCelsius(raw) == 2 * raw - 27315

\* kelvin_to_celsius_day(img): the converted LST_Day_1km band with its mask
kelvin_to_celsius_day(img) ==
  [day |-> img.day,
   px  |-> [p \in DOMAIN img.px |->
              [valid |-> img.px[p].day_mask, v |-> ToCelsius(img.px[p].LST_Day_1km)]]]

\* kelvin_to_celsius_night(img)
kelvin_to_celsius_night(img) ==
  [day |-> img.day,
   px  |-> [p \in DOMAIN img.px |->
              [valid |-> img.px[p].night_mask, v |-> ToCelsius(img.px[p].LST_Night_1km)]]]

\* chirps_daily ... .select("precipitation"): a one-band image
SelectPrecipitation(img) ==
  [day |-> img.day,
   px  |-> [p \in DOMAIN img.px |-> [valid |-> TRUE, v |-> img.px[p].precipitation]]]

\* chirps_daily: every image of the collection with its one band
PrecipCollection(col) == [n \in 1..Len(col) |-> SelectPrecipitation(col[n])]

\* col.map(mask_day).map(kelvin_to_celsius_day)
DayCollection(col) == [n \in 1..Len(col) |-> kelvin_to_celsius_day(mask_day(col[n]))]

\* col.map(mask_night).map(kelvin_to_celsius_night)
NightCollection(col) ==
  [n \in 1..Len(col) |-> kelvin_to_celsius_night(mask_night(col[n]))]

\* the valid values a collection holds at cell p, in collection order
RECURSIVE ValidAt(_, _)
ValidAt(col, p) ==
  IF col = <<>> THEN <<>>
  ELSE LET rest == ValidAt(Tail(col), p)
       IN  IF Head(col).px[p].valid THEN <<Head(col).px[p].v>> \o rest ELSE rest

\* collection.sum(): per cell the sum of the valid inputs
SumComposite(col, aoi) ==
  [p \in 1..NumCells(aoi) |->
     LET q == ValidAt(col, p)
     IN  IF q = <<>> THEN [valid |-> FALSE, v |-> 0]
         ELSE [valid |-> TRUE, v |-> SumSeq(q)]]

\* variant: 0 where no input is valid
MedianComposite_ZeroFill(col, aoi) ==
  [p \in 1..NumCells(aoi) |->
     LET q == ValidAt(col, p)
     IN  IF q = <<>> THEN [valid |-> TRUE, v |-> 0]
         ELSE [valid |-> TRUE, v |-> MedianOf(q)[1] \div MedianOf(q)[2]]]

\* collection.median(): per cell the median of the valid inputs, masked
\* where no input is valid
MedianComposite(col, aoi) ==
  [p \in 1..NumCells(aoi) |->
     LET q == ValidAt(col, p)
     IN  IF q = <<>> THEN [valid |-> FALSE, v |-> 0]
         ELSE [valid |-> TRUE, v |-> MedianOf(q)[1] \div MedianOf(q)[2]]]

(***************************************************************************)
(* Zonal reduction.                                                        *)
(***************************************************************************)
\* the valid values of a raster over the cells of polygon g, in cell order
RECURSIVE ValidIn(_, _, _)
ValidIn(image, lo, hi) ==
  IF lo > hi THEN <<>>
  ELSE IF image[lo].valid
       THEN <<image[lo].v>> \o ValidIn(image, lo + 1, hi)
       ELSE ValidIn(image, lo + 1, hi)

Samples(image, g) ==
  ValidIn(image, (g - 1) * PixelsPerPolygon + 1, g * PixelsPerPolygon)

\* the reducers dictionary of zonal_stats, applied to the samples of one polygon
Reduce(statistic, q) ==
  LET c   == Len(q)
      sm  == SumSeq(q)
      sq  == SumSeq([k \in 1..c |-> q[k] * q[k]])
      var == Num(c * sq - sm * sm, c * c)
  IN  IF statistic = "COUNT" THEN Num(c, 1)
      ELSE IF c = 0 THEN Null
      ELSE CASE statistic = "MEAN"     -> Num(sm, c)
             [] statistic = "MAXIMUM"  -> Num(Kth(q, c), 1)
             [] statistic = "MEDIAN"   -> Num(MedianOf(q)[1], MedianOf(q)[2])
             [] statistic = "MINIMUM"  -> Num(Kth(q, 1), 1)
             [] statistic = "MODE"     -> Num(ModeOf(q), 1)
             [] statistic = "STD"      -> Root(var)
             [] statistic = "SUM"      -> Num(sm, 1)
             [] statistic = "VARIANCE" -> var

\* the name of the property a reducer sets on each feature
OutputName(statistic) ==
  CASE statistic = "COUNT"    -> "count"
    [] statistic = "MEAN"     -> "mean"
    [] statistic = "MAXIMUM"  -> "max"
    [] statistic = "MEDIAN"   -> "median"
    [] statistic = "MINIMUM"  -> "min"
    [] statistic = "MODE"     -> "mode"
    [] statistic = "STD"      -> "stdDev"
    [] statistic = "SUM"      -> "sum"
    [] statistic = "VARIANCE" -> "variance"

\* image.reduceRegions(collection=features, reducer=..., scale=scale): one
\* value per polygon, Null where the reducer had no input
reduceRegions(image, features, statistic) ==
  [g \in 1..features |-> Reduce(statistic, Samples(image, g))]

\* zonal_stats(image, features, statistic, scale): the frame built by
\* GeoDataFrame.from_features.  One row per feature; the columns are the
\* geometry and the properties some feature carries (a null reducer output is
\* not a property of the feature; in a row that lacks it the cell is NaN).
zonal_stats(image, features, statistic) ==
  LET out  == reduceRegions(image, features, statistic)
      some == \E g \in 1..features : out[g] # Null
  IN  IF features = 0 THEN [columns |-> <<>>, rows |-> <<>>]
      ELSE [columns |-> IF some THEN <<"geometry", "gid", OutputName(statistic)>>
                        ELSE <<"geometry", "gid">>,
            rows    |-> [g \in 1..features |->
                           IF some THEN <<Txt("POLYGON"), Num(g, 1), out[g]>>
                           ELSE <<Txt("POLYGON"), Num(g, 1)>>]]

\* frame.drop(columns=labels) raises KeyError unless every label is a column
CanDrop(frame, labels) == \A c \in labels : c \in Range(frame.columns)

RECURSIVE Keep(_, _, _)
Keep(q, columns, labels) ==
  IF q = <<>> THEN <<>>
  ELSE IF Head(columns) \in labels
       THEN Keep(Tail(q), Tail(columns), labels)
       ELSE <<Head(q)>> \o Keep(Tail(q), Tail(columns), labels)

Drop(frame, labels) ==
  [columns |-> Keep(frame.columns, frame.columns, labels),
   rows    |-> [k \in 1..Len(frame.rows) |-> Keep(frame.rows[k], frame.columns, labels)]]

RECURSIVE Flatten(_)
Flatten(qq) == IF qq = <<>> THEN <<>> ELSE Head(qq) \o Flatten(Tail(qq))

\* str(frame).split(): the header, then per row its index and its cells; a
\* frame without columns or without rows prints as "Empty DataFrame",
\* "Columns: [...]", "Index: [...]".
StrSplit(frame) ==
  IF frame.columns = <<>> \/ frame.rows = <<>>
  THEN <<Txt("Empty"), Txt("DataFrame"), Txt("Columns:"), Txt("[]"),
         Txt("Index:"), Txt("[]")>>
  ELSE [k \in 1..Len(frame.columns) |-> Txt(frame.columns[k])]
       \o Flatten([k \in 1..Len(frame.rows) |->
                     <<Num(k - 1, 1)>>
                     \o [c \in 1..Len(frame.rows[k]) |->
                           IF frame.rows[k][c] = Null THEN Txt("NaN")
                           ELSE frame.rows[k][c]]])

\* str(x).split()[2]
ThirdToken(frame) == StrSplit(frame)[3]

\* values = [str(x).split()[2] for x in map(str, results)]
ValuesOf(results) == [k \in 1..Len(results) |-> ThirdToken(results[k])]

\* np.array(values).reshape(nr, nc) raises ValueError unless the sizes agree
CanReshape(values, nr, nc) == Len(values) = nr * nc

\* variant: column-major
Reshape_ColumnMajor(values, nr, nc) ==
  [r \in 1..nr |-> [c \in 1..nc |-> values[(c - 1) * nr + r]]]

\* row-major: matrix[r][c] = values[(r - 1) * nc + c]
Reshape(values, nr, nc) ==
  [r \in 1..nr |-> [c \in 1..nc |-> values[(r - 1) * nc + c]]]

\* pd.DataFrame(matrix, index=weeks, columns=STATISTICS)
DataFrame(matrix, index, columns) ==
  [index |-> index, columns |-> columns, data |-> matrix]

\* reshape_results(results)
reshape_results(results, wks) ==
  DataFrame(Reshape(ValuesOf(results), Len(wks), NumStats), wks, STATISTICS)

\* df.add_prefix(prefix)
add_prefix(df, prefix) ==
  [df EXCEPT !.columns = [c \in 1..Len(df.columns) |-> <<prefix, df.columns[c]>>]]

\* pd.concat([a, b], axis=1) of two frames with the same index
concat(a, b) ==
  [index   |-> a.index,
   columns |-> a.columns \o b.columns,
   data    |-> [r \in 1..Len(a.data) |-> a.data[r] \o b.data[r]]]

(***************************************************************************)
(* State.                                                                  *)
(*   pipeline     which script runs: "precip" or "lst"                     *)
(*   xlsx         the week table read by pd.read_excel: [year, se,         *)
(*                fecha_ini] per row                                       *)
(*   AOI          the number of polygons of the study-area asset           *)
(*   archive      the backend's daily observations, ordered by day         *)
(*   pc           position of the run: "load", "window", "stats", "post",  *)
(*                "write", "done", "aborted"                               *)
(*   error        the exception that ended the run, or "none"              *)
(*   i            index of the current window (0-based, as in the code)    *)
(*   k            number of statistics already reduced for window i        *)
(*   calls        history: the reduceRegions calls answered so far, each   *)
(*                with the frame zonal_stats returned                      *)
(*   queries      history: the number of size().getInfo() calls answered   *)
(*   consumed     history: per window built so far, the days of the        *)
(*                observations its collection held                         *)
(*   output_file  the frames written by to_excel, in order                 *)
(* The other variables are the scripts' own.                               *)
(***************************************************************************)
VARIABLES pipeline, xlsx, AOI, archive,
          pc, error, weeks, start_dates, end_dates, i, k,
          collection, image, results,
          day_col, night_col, day_img, night_img, results_day, results_night,
          df_out, output_file, calls, queries, consumed

inputs == <<pipeline, xlsx, AOI, archive>>
tables == <<weeks, start_dates, end_dates>>
precip == <<collection, image, results>>
lst    == <<day_col, night_col, day_img, night_img, results_day, results_night>>
vars   == <<inputs, tables, precip, lst, pc, error, i, k, df_out, output_file,
            calls, queries, consumed>>

NoFrame == [index |-> <<>>, columns |-> <<>>, data |-> <<>>]

(***************************************************************************)
(* Inputs of the model.                                                    *)
(***************************************************************************)
\* a CHIRPS image: precipitation amount * cell index at every cell
RasterPrecip(aoi, amount) ==
  [p \in 1..NumCells(aoi) |-> [precipitation |-> amount * p]]

\* a MOD11A1 image: raw temperatures rising with the cell index, the QC
\* bytes qd (day) and qn (night) given for odd and for even cells
RasterLst(aoi, base, qd, qn) ==
  [p \in 1..NumCells(aoi) |->
     [LST_Day_1km   |-> base + 50 * p,
      QC_Day        |-> IF p % 2 = 1 THEN qd[1] ELSE qd[2],
      LST_Night_1km |-> base - 500 + 50 * p,
      QC_Night      |-> IF p % 2 = 1 THEN qn[1] ELSE qn[2],
      day_mask      |-> TRUE,
      night_mask    |-> TRUE]]

PrecipAmounts == {0, 3, 5}
RawTemperatures == {13650, 15000}
QCPatterns == {<<0, 65>>, <<4, 8>>, <<0, 12>>}
Swap(pair) == <<pair[2], pair[1]>>

\* the rasters an observation of the data-rich inputs is drawn from
Rasters(pl, aoi) ==
  IF pl = "precip"
  THEN {RasterPrecip(aoi, a) : a \in PrecipAmounts}
  ELSE {RasterLst(aoi, b, q, Swap(q)) : b \in RawTemperatures, q \in QCPatterns}

Min(S) == CHOOSE x \in S : \A y \in S : x <= y

\* the observations f[d], d \in DOMAIN f, ordered by day
RECURSIVE ByDay(_, _)
ByDay(days, f) ==
  IF days = {} THEN <<>>
  ELSE LET d == Min(days)
       IN  <<[day |-> d, px |-> f[d]]>> \o ByDay(days \ {d}, f)

WeekTable(dates) ==
  [n \in 1..Len(dates) |-> [year |-> 2024, se |-> n, fecha_ini |-> dates[n]]]

Tuples(S, n) == [1..n -> S]

\* (a) any week table of up to MaxWeeks rows over MaxDayOffset + 1 days
\*     around the end of February 2024, increasing or not; one polygon or
\*     MaxPolygons; one observation every day
DayA == DaysFromCivil(2024, 2, 26)

DailyRaster(pl, aoi, d) ==
  IF pl = "precip" THEN RasterPrecip(aoi, d - DayA + 2)
  ELSE RasterLst(aoi, 14000 + 20 * (d - DayA),
                 IF (d - DayA) % 3 = 0 THEN <<4, 0>> ELSE <<0, 0>>,
                 IF (d - DayA) % 2 = 0 THEN <<0, 8>> ELSE <<0, 0>>)

InitDates ==
  /\ pipeline \in {"precip", "lst"}
  /\ AOI \in {1, MaxPolygons}
  /\ \E n \in 0..MaxWeeks : \E dates \in Tuples(DayA..(DayA + MaxDayOffset), n) :
       xlsx = WeekTable(dates)
  /\ LET days == (DayA - 1)..(DayA + MaxDayOffset + 8)
     IN  archive = ByDay(days, [d \in days |-> DailyRaster(pipeline, AOI, d)])

\* (b) the weekly table starting 2024-01-01; up to MaxPolygons polygons; up
\*     to MaxObs observations on chosen days, each any raster of Rasters
DayB == DaysFromCivil(2024, 1, 1)
ObservedDays == {DayB + 1, DayB + 2, DayB + 15}

InitData ==
  /\ pipeline \in {"precip", "lst"}
  /\ AOI \in 0..MaxPolygons
  /\ xlsx = WeekTable([n \in 1..MaxWeeks |-> DayB + 7 * (n - 1)])
  /\ \E days \in SUBSET ObservedDays :
       /\ Cardinality(days) <= MaxObs
       /\ \E f \in [days -> Rasters(pipeline, AOI)] : archive = ByDay(days, f)

\* (c) one week, one polygon, one temperature observation: every day QC
\*     byte beside a clear night byte, every night QC byte beside a day byte
\*     with bits 2 and 3 set
QCPairs == ((0..255) \X {0}) \cup ({12} \X (0..255))

InitQC ==
  /\ pipeline = "lst"
  /\ AOI = 1
  /\ xlsx = WeekTable(<<DayB>>)
  /\ \E q \in QCPairs :
       archive = <<[day |-> DayB + 1,
                    px  |-> RasterLst(AOI, 15000, <<q[1], q[1]>>, <<q[2], q[2]>>)]>>

Init ==
  /\ InitDates \/ InitData \/ InitQC
  /\ pc = "load"
  /\ error = "none"
  /\ weeks = <<>>
  /\ start_dates = <<>>
  /\ end_dates = <<>>
  /\ i = 0
  /\ k = 0
  /\ collection = <<>>
  /\ image = <<>>
  /\ results = <<>>
  /\ day_col = <<>>
  /\ night_col = <<>>
  /\ day_img = <<>>
  /\ night_img = <<>>
  /\ results_day = <<>>
  /\ results_night = <<>>
  /\ df_out = NoFrame
  /\ output_file = <<>>
  /\ calls = <<>>
  /\ queries = 0
  /\ consumed = <<>>

(***************************************************************************)
(* The run.                                                                *)
(***************************************************************************)
\* .filterDate(start, end) on a collection ordered by day
FilterDate(col, start, end) ==
  SelectSeq(col, LAMBDA o : InWindow(o.day, start, end))

DaysOf(col) == {col[n].day : n \in 1..Len(col)}

\* an uncaught exception ends the script
Raise(e) == pc' = "aborted" /\ error' = e

\* variant: the loop leaves a window one statistic early
NextStat_SkipLast ==
  IF k + 1 < NumStats - 1
  THEN k' = k + 1 /\ i' = i /\ pc' = "stats"
  ELSE k' = 0 /\ i' = i + 1 /\ pc' = IF i + 1 < Len(weeks) THEN "window" ELSE "post"

\* the step after the k-th statistic of window i: the next statistic, the
\* next window, or the end of the loop
NextStat ==
  IF k + 1 < NumStats
  THEN k' = k + 1 /\ i' = i /\ pc' = "stats"
  ELSE k' = 0 /\ i' = i + 1 /\ pc' = IF i + 1 < Len(weeks) THEN "window" ELSE "post"

\* DATA LOADING: the week table, the window ends, the formatted dates.
\* start_dates[-1] of an empty table raises IndexError.
LoadData ==
  /\ pc = "load"
  /\ LET fecha_ini == [n \in 1..Len(xlsx) |-> xlsx[n].fecha_ini]
     IN  IF Len(xlsx) = 0
         THEN /\ Raise("IndexError")
              /\ UNCHANGED tables
         ELSE /\ weeks' = [n \in 1..Len(xlsx) |-> xlsx[n].se]
              /\ start_dates' = format_timestamps(fecha_ini)
              /\ end_dates' = format_timestamps(EndDatesOf(fecha_ini))
              /\ pc' = "window"
              /\ error' = error
  /\ UNCHANGED <<inputs, precip, lst, i, k, df_out, output_file, calls, queries, consumed>>

\* precipitation, head of the loop body: the window's collection, its size
\* (one remote call) and the window's raster
BuildImagePrecip ==
  /\ pc = "window"
  /\ pipeline = "precip"
  /\ LET col == FilterDate(PrecipCollection(archive),
                           start_dates[i + 1], end_dates[i + 1])
     IN  /\ collection' = col
         /\ image' = IF Len(col) = 0 THEN ConstantZero(AOI)
                     ELSE SumComposite(col, AOI)
         /\ consumed' = Append(consumed, DaysOf(col))
  /\ queries' = queries + 1
  /\ pc' = "stats"
  /\ UNCHANGED <<inputs, tables, results, lst, error, i, k, df_out, output_file, calls>>

\* temperature, head of the loop body: the masked and converted day and
\* night collections, their sizes (two remote calls) and the two rasters
BuildImageLst ==
  /\ pc = "window"
  /\ pipeline = "lst"
  /\ LET window(col) == FilterDate(col, start_dates[i + 1], end_dates[i + 1])
         dcol == DayCollection(window(archive))
         ncol == NightCollection(window(archive))
     IN  /\ day_col' = dcol
         /\ night_col' = ncol
         /\ day_img' = IF Len(dcol) = 0 THEN ConstantZero(AOI)
                       ELSE MedianComposite(dcol, AOI)
         /\ night_img' = IF Len(ncol) = 0 THEN ConstantZero(AOI)
                         ELSE MedianComposite(ncol, AOI)
         /\ consumed' = Append(consumed, DaysOf(dcol) \cup DaysOf(ncol))
  /\ queries' = queries + 2
  /\ pc' = "stats"
  /\ UNCHANGED <<inputs, tables, precip, results_day, results_night, error, i, k,
                 df_out, output_file, calls>>

Call(sub, statistic, frame) ==
  [win |-> i, stat |-> statistic, sub |-> sub, frame |-> frame]

\* precipitation, one turn of the inner loop: reduce, drop, append
StatStepPrecip ==
  /\ pc = "stats"
  /\ pipeline = "precip"
  /\ LET stat == STATISTICS[k + 1]
         zs   == zonal_stats(image, AOI, stat)
     IN  /\ calls' = Append(calls, Call("", stat, zs))
         /\ IF CanDrop(zs, {"geometry", "gid"})
            THEN /\ results' = Append(results, Drop(zs, {"geometry", "gid"}))
                 /\ NextStat
                 /\ error' = error
            ELSE /\ Raise("KeyError")
                 /\ UNCHANGED <<results, i, k>>
  /\ UNCHANGED <<inputs, tables, collection, image, lst, df_out, output_file, queries, consumed>>

\* temperature, one turn of the inner loop: reduce day and night, drop,
\* append to both lists
StatStepLst ==
  /\ pc = "stats"
  /\ pipeline = "lst"
  /\ LET stat == STATISTICS[k + 1]
         d    == zonal_stats(day_img, AOI, stat)
         n    == zonal_stats(night_img, AOI, stat)
     IN  /\ calls' = calls \o <<Call("DAY_", stat, d), Call("NIGHT_", stat, n)>>
         /\ IF CanDrop(d, {"geometry", "gid"}) /\ CanDrop(n, {"geometry", "gid"})
            THEN /\ results_day' = Append(results_day, Drop(d, {"geometry", "gid"}))
                 /\ results_night' = Append(results_night, Drop(n, {"geometry", "gid"}))
                 /\ NextStat
                 /\ error' = error
            ELSE /\ Raise("KeyError")
                 /\ UNCHANGED <<results_day, results_night, i, k>>
  /\ UNCHANGED <<inputs, tables, precip, day_col, night_col, day_img, night_img,
                 df_out, output_file, queries, consumed>>

\* a remote call (getInfo) raises: the request fails, or the backend rejects
\* it (an empty date range, a geometry it cannot reduce)
BackendFail ==
  /\ pc \in {"window", "stats"}
  /\ Raise("EEException")
  /\ UNCHANGED <<inputs, tables, precip, lst, i, k, df_out, output_file, calls, queries, consumed>>

\* precipitation, POST-PROCESSING
PostProcessPrecip ==
  /\ pc = "post"
  /\ pipeline = "precip"
  /\ IF CanReshape(ValuesOf(results), Len(weeks), NumStats)
     THEN /\ df_out' = reshape_results(results, weeks)
          /\ pc' = "write"
          /\ error' = error
     ELSE /\ Raise("ValueError")
          /\ df_out' = df_out
  /\ UNCHANGED <<inputs, tables, precip, lst, i, k, output_file, calls, queries, consumed>>

\* temperature, POST-PROCESSING
PostProcessLst ==
  /\ pc = "post"
  /\ pipeline = "lst"
  /\ IF /\ CanReshape(ValuesOf(results_day), Len(weeks), NumStats)
        /\ CanReshape(ValuesOf(results_night), Len(weeks), NumStats)
     THEN /\ df_out' = concat(add_prefix(reshape_results(results_day, weeks), "DAY_"),
                              add_prefix(reshape_results(results_night, weeks), "NIGHT_"))
          /\ pc' = "write"
          /\ error' = error
     ELSE /\ Raise("ValueError")
          /\ df_out' = df_out
  /\ UNCHANGED <<inputs, tables, precip, lst, i, k, output_file, calls, queries, consumed>>

\* df_out.to_excel(OUTPUT_FILE)
WriteOutput ==
  /\ pc = "write"
  /\ output_file' = Append(output_file, df_out)
  /\ pc' = "done"
  /\ UNCHANGED <<inputs, tables, precip, lst, error, i, k, df_out, calls, queries, consumed>>

Next ==
  \/ LoadData
  \/ BuildImagePrecip
  \/ BuildImageLst
  \/ StatStepPrecip
  \/ StatStepLst
  \/ BackendFail
  \/ PostProcessPrecip
  \/ PostProcessLst
  \/ WriteOutput

Spec == Init /\ [][Next]_vars

(***************************************************************************)
(* Properties.  They are stated over the inputs (the week table as read,   *)
(* the archive as stored) and the histories, not over the operators the    *)
(* run applies.                                                            *)
(***************************************************************************)
NumWeeks == Len(xlsx)
Fecha(n) == xlsx[n].fecha_ini
StrictlyIncreasing == \A n \in 1..(NumWeeks - 1) : Fecha(n) < Fecha(n + 1)
Loaded == pc # "load" /\ error # "IndexError"

\* the day window n (1-based) ends, by the rule of the week table
EndDay(n) == IF n < NumWeeks THEN Fecha(n + 1) ELSE Fecha(NumWeeks) + 7

\* the archived observations of window n, by day number
Observed(n) ==
  SelectSeq(archive, LAMBDA o : Fecha(n) <= o.day /\ o.day < EndDay(n))

Bit(byte, b) == (byte \div (2 ^ b)) % 2
GoodQuality(byte) == Bit(byte, 2) = 0 /\ Bit(byte, 3) = 0

\* C1: for a week table of N >= 2 strictly increasing start dates, in either
\* pipeline, the window builder yields N starts and N ends, the end of window
\* n is the start of window n + 1 for n < N, every start is the table's date,
\* and the last end is the last start plus exactly 7 days.
C1_WindowBuilder ==
  (Loaded /\ NumWeeks >= 2 /\ StrictlyIncreasing) =>
    /\ Len(start_dates) = NumWeeks
    /\ Len(end_dates) = NumWeeks
    /\ \A n \in 1..NumWeeks : ParseDate(start_dates[n]) = Fecha(n)
    /\ \A n \in 1..(NumWeeks - 1) : end_dates[n] = start_dates[n + 1]
    /\ ParseDate(end_dates[NumWeeks]) = Fecha(NumWeeks) + 7
    /\ ParseDate(end_dates[NumWeeks]) - ParseDate(start_dates[NumWeeks]) = 7

\* three windows built by the temperature script, the last one ending in the
\* month after the one it starts in
C1_Witness ==
  /\ pc = "window"
  /\ pipeline = "lst"
  /\ NumWeeks = 3
  /\ StrictlyIncreasing
  /\ end_dates[3][2] # start_dates[3][2]

\* C2: for strictly increasing start dates every day from the first start up
\* to (not including) the last start plus 7 days lies in exactly one window
\* [start_dates[n], end_dates[n]); an archived observation of such a day is
\* never in the collections of two windows, and once the loop has ended it
\* has been in exactly one.
C2_WindowsPartitionDays ==
  (Loaded /\ NumWeeks >= 1 /\ StrictlyIncreasing) =>
    /\ \A d \in Fecha(1)..(Fecha(NumWeeks) + 6) :
         Cardinality({n \in 1..NumWeeks :
                        InWindow(d, start_dates[n], end_dates[n])}) = 1
    /\ \A a \in 1..Len(archive) :
         LET d    == archive[a].day
             held == {n \in 1..Len(consumed) : d \in consumed[n]}
         IN  /\ Cardinality(held) <= 1
             /\ (pc \in {"post", "write", "done"}
                   /\ Fecha(1) <= d /\ d <= Fecha(NumWeeks) + 6)
                => Cardinality(held) = 1

\* a finished run over three strictly increasing weeks whose windows held
\* observations
C2_Witness ==
  /\ pc = "done"
  /\ NumWeeks = 3
  /\ StrictlyIncreasing
  /\ \A n \in 1..3 : consumed[n] # {}

\* C3 (as claimed): a week table whose start dates are not strictly
\* increasing is rejected with InvalidInputError: no window is built, no
\* backend call is issued and nothing is written.
C3_InvalidInputRejected ==
  (pc # "load" /\ NumWeeks >= 1 /\ ~StrictlyIncreasing) =>
    /\ error = "InvalidInputError"
    /\ end_dates = <<>>
    /\ queries = 0
    /\ calls = <<>>
    /\ output_file = <<>>

\* the value the reduction of call c returned for polygon g
ValueAt(c, g) == c.frame.rows[g][3]

\* the reductions answered by the latest step (calls only grows, see C9, so
\* every reduction is among them in the state its step leads to)
LatestCalls ==
  {n \in 1..Len(calls) : n > Len(calls) - (IF pipeline = "lst" THEN 2 ELSE 1)}

\* C4: a window without observations is reduced over the constant-0 raster:
\* every polygon has COUNT = its full cell count and SUM = MEAN = STD =
\* VARIANCE = 0, and so has the window's row of the assembled table; a window
\* with observations is reduced over their sum (precipitation) or their
\* per-cell median after masking and conversion (temperature).
C4_EmptyWindowIsZero ==
  /\ \A n \in LatestCalls :
       LET c   == calls[n]
           obs == Observed(c.win + 1)
       IN  IF obs = <<>>
           THEN \A g \in 1..AOI :
                  /\ c.stat = "COUNT" => ValueAt(c, g) = Num(PixelsPerPolygon, 1)
                  /\ c.stat \in {"SUM", "MEAN", "STD", "VARIANCE"}
                       => ValueAt(c, g) = Num(0, 1)
           ELSE c.frame =
                  zonal_stats(
                    CASE c.sub = ""       -> SumComposite(PrecipCollection(obs), AOI)
                      [] c.sub = "DAY_"   -> MedianComposite(DayCollection(obs), AOI)
                      [] c.sub = "NIGHT_" -> MedianComposite(NightCollection(obs), AOI),
                    AOI, c.stat)
  /\ pc \in {"write", "done"} =>
       \A r \in 1..NumWeeks :
         Observed(r) = <<>> =>
           \A b \in 0..(Len(df_out.columns) \div NumStats - 1) :
             /\ df_out.data[r][b * NumStats + 1] = Num(PixelsPerPolygon, 1)
             /\ \A j \in {3, 7, 8, 9} : df_out.data[r][b * NumStats + j] = Num(0, 1)

\* the scenario of the weekly table 2024-01-01, 01-08, 01-15 with the sum
\* rule: observations in the first and the third window only, table written
C4_Witness ==
  /\ pc = "done"
  /\ pipeline = "precip"
  /\ AOI >= 1
  /\ NumWeeks = 3
  /\ Fecha(1) = DaysFromCivil(2024, 1, 1)
  /\ Observed(1) # <<>>
  /\ Observed(2) = <<>>
  /\ Observed(3) # <<>>
  /\ output_file[1].data[2][8] = Num(0, 1)
  /\ output_file[1].data[1][8] # Num(0, 1)

\* C5 (as claimed): a table is assembled only if every reduction returned
\* exactly one row; once a reduction has returned no row or several rows the
\* run fails instead of assembling a table from truncated frames.
C5_StrictShape ==
  (\E n \in 1..Len(calls) : Len(calls[n].frame.rows) # 1) =>
    /\ pc \notin {"write", "done"}
    /\ df_out = NoFrame

\* the answered call for window w (0-based), statistic st, sub-variable sub
TheCall(w, st, sub) ==
  CHOOSE c \in Range(calls) : c.win = w /\ c.stat = st /\ c.sub = sub

\* what a table cell shows of a returned frame: the value of its first row
\* (NaN where that row has none), or the word "Columns:" when no feature
\* carries the statistic
Shown(frame) ==
  IF Len(frame.columns) = 3
  THEN IF frame.rows[1][3] = Null THEN Txt("NaN") ELSE frame.rows[1][3]
  ELSE Txt("Columns:")

EnumerationOrder ==
  <<"COUNT", "MINIMUM", "MEAN", "MAXIMUM", "MEDIAN", "MODE", "STD", "SUM", "VARIANCE">>

C7_AllOrNothing ==
  /\ Len(output_file) <= 1
  /\ pc = "aborted" => output_file = <<>>
  /\ output_file # <<>> =>
       /\ error = "none"
       /\ StrictlyIncreasing
       /\ \A n \in 1..Len(calls) : Len(calls[n].frame.rows) = 1
       /\ Len(calls) = NumWeeks * 9 * (IF pipeline = "lst" THEN 2 ELSE 1)

\* C8: in the temperature pipeline a cell of an observation enters the
\* window's day median iff bits 2 and 3 of its QC_Day byte are clear, and the
\* night median iff bits 2 and 3 of its QC_Night byte are clear, whatever its
\* temperature; the window's raster is, per cell, the median of the
\* temperatures that entered, converted to Celsius, and masked where none did.
C8_QualityMask ==
  (pipeline = "lst" /\ pc = "stats") =>
    LET obs == Observed(i + 1)
        medianOver(q) ==
          IF q = <<>> THEN [valid |-> FALSE, v |-> 0]
          ELSE [valid |-> TRUE, v |-> MedianOf(q)[1] \div MedianOf(q)[2]]
    IN  /\ Len(day_col) = Len(obs)
        /\ Len(night_col) = Len(obs)
        /\ \A n \in 1..Len(obs) : \A p \in 1..(AOI * PixelsPerPolygon) :
             /\ day_col[n].px[p].valid = GoodQuality(obs[n].px[p].QC_Day)
             /\ night_col[n].px[p].valid = GoodQuality(obs[n].px[p].QC_Night)
        /\ obs # <<>> =>
             \A p \in 1..(AOI * PixelsPerPolygon) :
               LET dayIn   == SelectSeq(obs, LAMBDA o : GoodQuality(o.px[p].QC_Day))
                   nightIn == SelectSeq(obs, LAMBDA o : GoodQuality(o.px[p].QC_Night))
               IN  /\ day_img[p] =
                        medianOver([n \in 1..Len(dayIn) |->
                                      2 * dayIn[n].px[p].LST_Day_1km - 27315])
                   /\ night_img[p] =
                        medianOver([n \in 1..Len(nightIn) |->
                                      2 * nightIn[n].px[p].LST_Night_1km - 27315])

\* an observation whose day cell is excluded (bits 2 and 3 set, all others
\* clear) while its night cell, with every other bit set, is included
C8_Witness ==
  /\ pipeline = "lst"
  /\ pc = "stats"
  /\ AOI = 1
  /\ Len(day_col) = 1
  /\ Observed(i + 1)[1].px[1].QC_Day = 12
  /\ Observed(i + 1)[1].px[1].QC_Night = 243
  /\ ~day_col[1].px[1].valid
  /\ night_col[1].px[1].valid
  /\ ~day_img[1].valid
  /\ night_img[1].valid

\* the n-th answered call, by the order of the loops
ExpectedCall(n) ==
  IF pipeline = "precip"
  THEN [win |-> (n - 1) \div 9, stat |-> EnumerationOrder[((n - 1) % 9) + 1], sub |-> ""]
  ELSE [win  |-> ((n - 1) \div 2) \div 9,
        stat |-> EnumerationOrder[(((n - 1) \div 2) % 9) + 1],
        sub  |-> IF n % 2 = 1 THEN "DAY_" ELSE "NIGHT_"]

IsPrefix(a, b) == Len(a) <= Len(b) /\ a = SubSeq(b, 1, Len(a))

C9_State ==
  LET done == 9 * i + k
      subs == IF pipeline = "lst" THEN 2 ELSE 1
      lost == IF error = "KeyError" THEN subs ELSE 0
  IN  /\ k \in 0..8
      /\ i \in 0..NumWeeks
      /\ pc = "stats" => i < NumWeeks
      /\ pc = "window" => (k = 0 /\ i < NumWeeks)
      /\ pc \in {"post", "write", "done"} => (k = 0 /\ i = NumWeeks)
      /\ Len(results) = (IF pipeline = "precip" THEN done ELSE 0)
      /\ Len(results_day) = (IF pipeline = "lst" THEN done ELSE 0)
      /\ Len(results_night) = Len(results_day)
      /\ Len(calls) = subs * done + lost
      /\ \A n \in 1..Len(calls) :
           /\ calls[n].win = ExpectedCall(n).win
           /\ calls[n].stat = ExpectedCall(n).stat
           /\ calls[n].sub = ExpectedCall(n).sub

C9_Step ==
  /\ IsPrefix(results, results')
  /\ IsPrefix(results_day, results_day')
  /\ IsPrefix(results_night, results_night')
  /\ IsPrefix(calls, calls')
  /\ Len(results') <= Len(results) + 1
  /\ Len(results_day') <= Len(results_day) + 1
  /\ Len(calls') <= Len(calls) + (IF pipeline = "lst" THEN 2 ELSE 1)
  /\ i' \in {i, i + 1}
  /\ i' = i + 1 => (k = 8 /\ k' = 0)

\* C9: windows are reduced one at a time in index order and the statistics
\* of a window one at a time in enumeration order, with one answered
\* reduction per (window, statistic, sub-variable); the result lists only
\* grow, by one frame per step, so that with i windows complete and k
\* statistics of the next one done each holds 9 * i + k frames, and the day
\* and night lists always have the same length.
C9_SequentialAppendOnly == [](C9_State) /\ [][C9_Step]_vars

\* the second window of a temperature run, four statistics done
C9_Witness ==
  /\ pipeline = "lst"
  /\ pc = "stats"
  /\ i = 1
  /\ k = 4
  /\ Len(results_day) = 13
  /\ Len(calls) = 26

\* C10: in the temperature pipeline the day (night) raster is the constant-0
\* raster iff the window holds no observation; a window that holds
\* observations whose cells are all excluded by the day (night) quality mask
\* keeps a fully masked raster, whose COUNT is 0, not the full cell count.
C10_FallbackOnlyWhenEmpty ==
  (pipeline = "lst" /\ AOI >= 1) =>
    /\ pc = "stats" =>
         /\ (day_img = [p \in 1..(AOI * PixelsPerPolygon) |-> [valid |-> TRUE, v |-> 0]])
              <=> (Observed(i + 1) = <<>>)
         /\ (night_img = [p \in 1..(AOI * PixelsPerPolygon) |-> [valid |-> TRUE, v |-> 0]])
              <=> (Observed(i + 1) = <<>>)
    /\ \A n \in 1..Len(calls) :
         LET c   == calls[n]
             obs == Observed(c.win + 1)
             qc(o, p) == IF c.sub = "DAY_" THEN o.px[p].QC_Day ELSE o.px[p].QC_Night
         IN  (c.stat = "COUNT" /\ obs # <<>>) =>
               \A g \in 1..AOI :
                 (\A m \in 1..Len(obs) : \A p \in CellsOf(g) : ~GoodQuality(qc(obs[m], p)))
                   => ValueAt(c, g) = Num(0, 1)

\* a window with an observation whose day cells are all excluded: the day
\* raster is fully masked and its COUNT is 0
C10_Witness ==
  /\ pipeline = "lst"
  /\ AOI >= 1
  /\ pc = "stats"
  /\ k = 1
  /\ Observed(i + 1) # <<>>
  /\ \A p \in 1..(AOI * PixelsPerPolygon) : ~day_img[p].valid
  /\ ValueAt(calls[Len(calls) - 1], 1) = Num(0, 1)

=============================================================================
